---- MODULE Spec2Model ----
(***************************************************************************)
(* Model of the `hell` math utility crate: the Matrix type of              *)
(* src/matrix.rs (new, identity, transpose, add, multiply and the derived  *)
(* PartialEq), the gcd fold of src/gcd.rs, factorial and power of          *)
(* src/algebra.rs and solve_quadratic of src/quadratic.rs.                 *)
(*                                                                         *)
(* f64 values are modelled by a tagged record: a finite value (a small     *)
(* integer, which f64 represents and adds/multiplies exactly), NaN, or an  *)
(* infinity with its sign.  Negative zero is not distinguished from zero:  *)
(* the two compare equal under f64's `==`.                                 *)
(***************************************************************************)
EXTENDS Integers, Sequences, FiniteSets, TLC

\* ------------------------------------------------------------------ bounds
\* Largest row/column count (and data length) the callers pass.
MaxDim == 2
\* How many times a caller rebinds a register to the result of an operation.
MaxMoves == 1
\* Longest slice passed to gcd, and the largest element in it.
MaxLen == 3
MaxNum == 6
\* Largest argument passed to factorial.
MaxFactN == 22
\* Largest base and exponent passed to power.
MaxBase == 16
MaxExp == 17
\* Largest magnitude of a coefficient passed to solve_quadratic.
MaxCoef == 3

\* -------------------------------------------------------------- f64 values
F(n) == [k |-> "fin", v |-> n]
NaN == [k |-> "nan", v |-> 0]
PosInf == [k |-> "inf", v |-> 1]
NegInf == [k |-> "inf", v |-> -1]

IsNaN(x) == x.k = "nan"
IsInf(x) == x.k = "inf"
IsFinite(x) == x.k = "fin"

Sign(n) == IF n > 0 THEN 1 ELSE IF n < 0 THEN -1 ELSE 0

\* f64 `+`
FAdd(x, y) ==
    IF IsNaN(x) \/ IsNaN(y) THEN NaN
    ELSE IF IsInf(x) /\ IsInf(y) THEN (IF x.v = y.v THEN x ELSE NaN)
    ELSE IF IsInf(x) THEN x
    ELSE IF IsInf(y) THEN y
    ELSE F(x.v + y.v)

\* f64 `*`
FMul(x, y) ==
    IF IsNaN(x) \/ IsNaN(y) THEN NaN
    ELSE IF IsInf(x) \/ IsInf(y)
         THEN (IF Sign(x.v) * Sign(y.v) = 0 THEN NaN
               ELSE [k |-> "inf", v |-> Sign(x.v) * Sign(y.v)])
    ELSE F(x.v * y.v)

\* f64 `==` (PartialEq for f64): NaN is equal to nothing, itself included.
FEq(x, y) == ~IsNaN(x) /\ ~IsNaN(y) /\ x = y

\* ------------------------------------------------------------ Matrix type
\* struct Matrix { rows, cols, data }
Matrix(rows, cols, data) == [rows |-> rows, cols |-> cols, data |-> data]

\* Result values: Ok(matrix), Err(msg), or a panic (no value is produced).
NoMatrix == Matrix(0, 0, <<>>)
Ok(m) == [tag |-> "Ok", val |-> m, msg |-> ""]
Err(s) == [tag |-> "Err", val |-> NoMatrix, msg |-> s]
Panic(s) == [tag |-> "Panic", val |-> NoMatrix, msg |-> s]

\* vec![vec![x; cols]; rows]
Filled(rows, cols, x) == [i \in 1..rows |-> [j \in 1..cols |-> x]]

\* data[i][j] is an in-bounds read (Rust indexing panics otherwise).
InBounds(data, i, j) == i \in 1..Len(data) /\ j \in 1..Len(data[i])

\* Matrix::new without the column assertion.
NewNoColCheck(rows, cols, data) ==
    IF rows # Len(data)
    THEN Panic("Number of rows does not match data length.")
    ELSE Ok(Matrix(rows, cols, data))

\* Matrix::new
New(rows, cols, data) ==
    IF rows # Len(data)
    THEN Panic("Number of rows does not match data length.")
    ELSE IF \E i \in 1..Len(data) : Len(data[i]) # cols
    THEN Panic("Not all rows have the same number of columns.")
    ELSE Ok(Matrix(rows, cols, data))

\* Matrix::identity without the loop that sets the diagonal.
IdentityZeros(size) == Ok(Matrix(size, size, Filled(size, size, F(0))))

\* Matrix::identity that never builds an empty matrix.
IdentityAtLeastOne(size) ==
    LET n == IF size = 0 THEN 1 ELSE size
    IN Ok(Matrix(n, n, [i \in 1..n |-> [j \in 1..n |-> IF i = j THEN F(1) ELSE F(0)]]))

\* Matrix::identity
Identity(size) ==
    Ok(Matrix(size, size,
              [i \in 1..size |-> [j \in 1..size |-> IF i = j THEN F(1) ELSE F(0)]]))

\* Matrix::transpose that keeps `rows` and `cols` as they were.
TransposeNoSwap(self) ==
    IF \E i \in 1..self.rows, j \in 1..self.cols : ~InBounds(self.data, i, j)
    THEN Panic("index out of bounds")
    ELSE Ok(Matrix(self.rows, self.cols,
                   [j \in 1..self.cols |-> [i \in 1..self.rows |-> self.data[i][j]]]))

\* Matrix::transpose writing `transposed[i][j] = self.data[i][j]`.
TransposeCopy(self) ==
    IF self.rows # self.cols /\ self.rows > 0 /\ self.cols > 0
    THEN Panic("index out of bounds")
    ELSE IF \E i \in 1..self.rows, j \in 1..self.cols : ~InBounds(self.data, i, j)
    THEN Panic("index out of bounds")
    ELSE Ok(Matrix(self.cols, self.rows,
                   [j \in 1..self.cols |-> [i \in 1..self.rows |-> self.data[j][i]]]))

\* Matrix::transpose
Transpose(self) ==
    IF \E i \in 1..self.rows, j \in 1..self.cols : ~InBounds(self.data, i, j)
    THEN Panic("index out of bounds")
    ELSE Ok(Matrix(self.cols, self.rows,
                   [j \in 1..self.cols |-> [i \in 1..self.rows |-> self.data[i][j]]]))

\* Matrix::add comparing only the row counts.
AddRowsOnly(self, other) ==
    IF self.rows # other.rows
    THEN Err("Matrices dimensions do not match for addition.")
    ELSE IF \E i \in 1..self.rows, j \in 1..self.cols :
                ~InBounds(self.data, i, j) \/ ~InBounds(other.data, i, j)
    THEN Panic("index out of bounds")
    ELSE New(self.rows, self.cols,
             [i \in 1..Len(self.data) |->
                [j \in 1..Len(self.data[i]) |->
                   IF i <= self.rows /\ j <= self.cols
                   THEN FAdd(self.data[i][j], other.data[i][j])
                   ELSE self.data[i][j]]])

\* Matrix::add writing `result[i][j] = other.data[i][j]` (`=` for `+=`).
AddAssign(self, other) ==
    IF self.rows # other.rows \/ self.cols # other.cols
    THEN Err("Matrices dimensions do not match for addition.")
    ELSE IF \E i \in 1..self.rows, j \in 1..self.cols :
                ~InBounds(self.data, i, j) \/ ~InBounds(other.data, i, j)
    THEN Panic("index out of bounds")
    ELSE New(self.rows, self.cols,
             [i \in 1..Len(self.data) |->
                [j \in 1..Len(self.data[i]) |->
                   IF i <= self.rows /\ j <= self.cols
                   THEN other.data[i][j]
                   ELSE self.data[i][j]]])

\* Matrix::add
Add(self, other) ==
    IF self.rows # other.rows \/ self.cols # other.cols
    THEN Err("Matrices dimensions do not match for addition.")
    ELSE IF \E i \in 1..self.rows, j \in 1..self.cols :
                ~InBounds(self.data, i, j) \/ ~InBounds(other.data, i, j)
    THEN Panic("index out of bounds")
    ELSE New(self.rows, self.cols,
             [i \in 1..Len(self.data) |->
                [j \in 1..Len(self.data[i]) |->
                   IF i <= self.rows /\ j <= self.cols
                   THEN FAdd(self.data[i][j], other.data[i][j])
                   ELSE self.data[i][j]]])

\* The accumulation with the loop bound one short (`0..self.cols - 1`).
RECURSIVE DotSkipLast(_, _, _, _, _)
DotSkipLast(self, other, i, j, n) ==
    IF n <= 1 THEN F(0)
    ELSE FAdd(DotSkipLast(self, other, i, j, n - 1),
              FMul(self.data[i][n - 1], other.data[n - 1][j]))

\* The accumulation `result[i][j] += self.data[i][k] * other.data[k][j]`
\* for k = 1..n in increasing order, starting from 0.0.
RECURSIVE Dot(_, _, _, _, _)
Dot(self, other, i, j, n) ==
    IF n = 0 THEN F(0)
    ELSE FAdd(Dot(self, other, i, j, n - 1),
              FMul(self.data[i][n], other.data[n][j]))

\* Matrix::multiply
Multiply(self, other) ==
    IF self.cols # other.rows
    THEN Err("Matrices dimensions do not match for multiplication.")
    ELSE IF \E i \in 1..self.rows, j \in 1..other.cols, k \in 1..self.cols :
                ~InBounds(self.data, i, k) \/ ~InBounds(other.data, k, j)
    THEN Panic("index out of bounds")
    ELSE New(self.rows, other.cols,
             [i \in 1..self.rows |->
                [j \in 1..other.cols |-> Dot(self, other, i, j, self.cols)]])

\* #[derive(PartialEq)] on Matrix: field-wise ==, Vec<Vec<f64>> element-wise.
MatEq(m, n) ==
    /\ m.rows = n.rows
    /\ m.cols = n.cols
    /\ Len(m.data) = Len(n.data)
    /\ \A i \in 1..Len(m.data) :
          /\ Len(m.data[i]) = Len(n.data[i])
          /\ \A j \in 1..Len(m.data[i]) : FEq(m.data[i][j], n.data[i][j])

\* PartialEq on Result<Matrix, &'static str>
ResEq(r, s) ==
    /\ r.tag = s.tag
    /\ r.tag = "Ok" => MatEq(r.val, s.val)
    /\ r.tag = "Err" => r.msg = s.msg
    /\ r.tag # "Panic"

\* ------------------------------------------------------- caller's inputs
\* Element patterns of the data the callers build.  "seq" numbers the
\* elements row by row (the 1.0, 2.0, 3.0, 4.0 of the crate's examples); the
\* other kinds put one special value into that grid.
Kinds == {"zero", "seq", "nan", "inf", "ninf"}

Gen(kind, i, j, cols) ==
    IF kind = "zero" THEN F(0)
    ELSE IF kind = "nan" /\ i = 1 /\ j = cols THEN NaN
    ELSE IF kind = "inf" /\ i = 1 /\ j = 1 THEN PosInf
    ELSE IF kind = "ninf" /\ i = 1 /\ j = 1 THEN NegInf
    ELSE F((i - 1) * cols + j)

Dims == 0..MaxDim

\* Well-shaped data: every row has the same length.
GridData ==
    { [i \in 1..r |-> [j \in 1..c |-> Gen(kd, i, j, c)]] :
        r \in Dims, c \in Dims, kd \in Kinds }

\* Ragged data: one row longer or shorter than the others.
RaggedData ==
    { [d EXCEPT ![Len(d)] = Append(@, F(0))] : d \in GridData \ {<<>>} }
    \cup { [d EXCEPT ![1] = SubSeq(@, 1, Len(@) - 1)] :
             d \in { e \in GridData : e # <<>> /\ Len(e[1]) > 0 } }

DataIn == GridData \cup RaggedData

\* ------------------------------------------------------------ the callers
\* A caller holds two matrices `a` and `b` (bound once each by a
\* constructor), the result `out` of its last call with the call itself in
\* `call`, and may rebind a register to an Ok result.  A panic unwinds the
\* caller: its matrices are dropped and it stops.
VARIABLES a, b, bound, out, call, moves, pc

mvars == <<a, b, bound, out, call, moves, pc>>

\* A call of gcd: the slice `numbers`, the position `idx` of reduce's
\* iterator, its accumulator `acc`, the locals `ga` and `gb` of gcd_two (its
\* `a` and `b`), the returned value `gres`, and where the call stands.
VARIABLES numbers, idx, acc, ga, gb, gres, gpc

gvars == <<numbers, idx, acc, ga, gb, gres, gpc>>

\* The build profile: whether integer overflow is checked (`overflow-checks`,
\* on in debug builds, off in release builds).
VARIABLES checks

cvars == <<checks>>

\* A call of factorial: the argument `fn`, the position `fi` of the range
\* iterator 1..=n, the running product `facc`, the returned value `fres`,
\* and where the call stands.
VARIABLES fn, fi, facc, fres, fpc

fvars == <<fn, fi, facc, fres, fpc>>

\* A call of power: the arguments `pbase` and `pexp`, the number `pk` of
\* iterations of the loop so far, the local `presult`, the returned value
\* `pres`, and where the call stands.
VARIABLES pbase, pexp, pk, presult, pres, ppc

pvars == <<pbase, pexp, pk, presult, pres, ppc>>

\* A call of solve_quadratic: the arguments `qa`, `qb`, `qc`, the returned
\* value `qres`, and where the call stands.
VARIABLES qa, qb, qc, qres, qpc

qvars == <<qa, qb, qc, qres, qpc>>

vars == <<mvars, gvars, cvars, fvars, pvars, qvars>>

\* What a Matrix call, a gcd call, a factorial call and a power call leave
\* alone.
notMatrix == <<gvars, cvars, fvars, pvars, qvars>>
notGcd == <<mvars, cvars, fvars, pvars, qvars>>
notFact == <<mvars, gvars, pvars, qvars>>
notPower == <<mvars, gvars, fvars, qvars>>
notQuad == <<mvars, gvars, cvars, fvars, pvars>>

NoCall == [op |-> "none", rows |-> 0, cols |-> 0, data |-> <<>>, size |-> 0,
           self |-> NoMatrix, other |-> NoMatrix]
NoResult == [tag |-> "None", val |-> NoMatrix, msg |-> ""]

MInit ==
    /\ a = NoMatrix
    /\ b = NoMatrix
    /\ bound = {}
    /\ out = NoResult
    /\ call = NoCall
    /\ moves = 0
    /\ pc = "run"

\* The effect of a call's result on the caller: a panic drops everything.
Unwind(res) ==
    IF res.tag = "Panic"
    THEN /\ a' = NoMatrix /\ b' = NoMatrix /\ bound' = {} /\ pc' = "panicked"
    ELSE UNCHANGED <<a, b, bound, pc>>

\* let <t> = constructor result
Bind(t, res) ==
    IF res.tag = "Panic"
    THEN /\ a' = NoMatrix /\ b' = NoMatrix /\ bound' = {} /\ pc' = "panicked"
    ELSE /\ a' = (IF t = "a" THEN res.val ELSE a)
         /\ b' = (IF t = "b" THEN res.val ELSE b)
         /\ bound' = bound \cup {t}
         /\ pc' = pc

\* let <t> = Matrix::new(rows, cols, data);
CallNew(t, rows, cols, data) ==
    /\ pc = "run"
    /\ t \notin bound
    /\ out' = New(rows, cols, data)
    /\ call' = [NoCall EXCEPT !.op = "new", !.rows = rows, !.cols = cols,
                              !.data = data]
    /\ Bind(t, out')
    /\ UNCHANGED <<moves, notMatrix>>

\* let <t> = Matrix::identity(size);
CallIdentity(t, size) ==
    /\ pc = "run"
    /\ t \notin bound
    /\ out' = Identity(size)
    /\ call' = [NoCall EXCEPT !.op = "identity", !.size = size]
    /\ Bind(t, out')
    /\ UNCHANGED <<moves, notMatrix>>

Reg(t) == IF t = "a" THEN a ELSE b

\* let out = <t>.transpose();
CallTranspose(t) ==
    /\ pc = "run"
    /\ t \in bound
    /\ out' = Transpose(Reg(t))
    /\ call' = [NoCall EXCEPT !.op = "transpose", !.self = Reg(t)]
    /\ Unwind(out')
    /\ UNCHANGED <<moves, notMatrix>>

\* let out = a.add(&b);
CallAdd ==
    /\ pc = "run"
    /\ bound = {"a", "b"}
    /\ out' = Add(a, b)
    /\ call' = [NoCall EXCEPT !.op = "add", !.self = a, !.other = b]
    /\ Unwind(out')
    /\ UNCHANGED <<moves, notMatrix>>

\* let out = a.multiply(&b);
CallMultiply ==
    /\ pc = "run"
    /\ bound = {"a", "b"}
    /\ out' = Multiply(a, b)
    /\ call' = [NoCall EXCEPT !.op = "multiply", !.self = a, !.other = b]
    /\ Unwind(out')
    /\ UNCHANGED <<moves, notMatrix>>

\* let <t> = out.unwrap();  (rebinding a register to an operation's result)
Rebind(t) ==
    /\ pc = "run"
    /\ call.op \in {"transpose", "add", "multiply"}
    /\ out.tag = "Ok"
    /\ moves < MaxMoves
    /\ t \in bound
    /\ a' = (IF t = "a" THEN out.val ELSE a)
    /\ b' = (IF t = "b" THEN out.val ELSE b)
    /\ moves' = moves + 1
    /\ out' = NoResult
    /\ call' = NoCall
    /\ UNCHANGED <<bound, pc, notMatrix>>

Regs == {"a", "b"}

Next ==
    \/ \E t \in Regs, rows \in Dims, cols \in Dims, data \in DataIn :
          CallNew(t, rows, cols, data)
    \/ \E t \in Regs, size \in Dims : CallIdentity(t, size)
    \/ \E t \in Regs : CallTranspose(t)
    \/ CallAdd
    \/ CallMultiply
    \/ \E t \in Regs : Rebind(t)

\* ------------------------------------------------------------------- gcd
GcdInputs == UNION { [1..n -> 0..MaxNum] : n \in 0..MaxLen }

GIdle ==
    /\ numbers = <<>>
    /\ idx = 0
    /\ acc = 0
    /\ ga = 0
    /\ gb = 0
    /\ gres = 0
    /\ gpc = "idle"

GInit ==
    /\ numbers \in GcdInputs
    /\ idx = 0
    /\ acc = 0
    /\ ga = 0
    /\ gb = 0
    /\ gres = 0
    /\ gpc = "call"

\* gcd: numbers.iter().cloned().reduce(..) takes the first element as the
\* accumulator; an empty iterator gives None and unwrap_or(0) returns 0.
GcdEnter ==
    /\ gpc = "call"
    /\ IF Len(numbers) = 0
       THEN /\ gres' = 0
            /\ gpc' = "done"
            /\ UNCHANGED <<acc, idx>>
       ELSE /\ acc' = numbers[1]
            /\ idx' = 2
            /\ gpc' = "fold"
            /\ UNCHANGED gres
    /\ UNCHANGED <<numbers, ga, gb, notGcd>>

\* reduce: the next element is passed with the accumulator to gcd_two; when
\* the iterator is exhausted the accumulator is the result.
GcdFold ==
    /\ gpc = "fold"
    /\ IF idx > Len(numbers)
       THEN /\ gres' = acc
            /\ gpc' = "done"
            /\ UNCHANGED <<ga, gb>>
       ELSE /\ ga' = acc
            /\ gb' = numbers[idx]
            /\ gpc' = "loop"
            /\ UNCHANGED gres
    /\ UNCHANGED <<numbers, acc, idx, notGcd>>

\* gcd_two's iteration without `temp`: `b = a % b; a = b`.
GcdLoopNoTemp ==
    /\ gpc = "loop"
    /\ gb # 0
    /\ gb' = ga % gb
    /\ ga' = ga % gb
    /\ UNCHANGED <<numbers, acc, idx, gres, gpc, notGcd>>

\* gcd_two's iteration under `while a != 0` instead of `while b != 0`.
GcdLoopWhileA ==
    /\ gpc = "loop"
    /\ ga # 0
    /\ IF gb = 0
       THEN /\ gpc' = "panicked"
            /\ UNCHANGED <<ga, gb>>
       ELSE /\ gb' = ga % gb
            /\ ga' = gb
            /\ gpc' = gpc
    /\ UNCHANGED <<numbers, acc, idx, gres, notGcd>>

\* gcd_two: one iteration of `while b != 0 { temp = b; b = a % b; a = temp }`.
\* The u32 remainder `a % b` panics when b is 0.
GcdLoop ==
    /\ gpc = "loop"
    /\ gb # 0
    /\ IF gb = 0
       THEN /\ gpc' = "panicked"
            /\ UNCHANGED <<ga, gb>>
       ELSE /\ gb' = ga % gb
            /\ ga' = gb
            /\ gpc' = gpc
    /\ UNCHANGED <<numbers, acc, idx, gres, notGcd>>

\* gcd_two: the loop exits and `a` is returned to reduce.
GcdReturn ==
    /\ gpc = "loop"
    /\ gb = 0
    /\ acc' = ga
    /\ idx' = idx + 1
    /\ gpc' = "fold"
    /\ UNCHANGED <<numbers, ga, gb, gres, notGcd>>

\* gcd_two with `if b != 0` for `while b != 0`: a single iteration.
gcd_two_once(x, y) == IF y # 0 THEN y ELSE x

\* gcd_two as a function of its arguments: what the loop leaves in `a`.
RECURSIVE gcd_two(_, _)
gcd_two(x, y) == IF y # 0 THEN gcd_two(y, x % y) ELSE x

\* reduce(|a, b| gcd_two(a, b)) from position i on, with accumulator x.
RECURSIVE reduce(_, _, _)
reduce(x, s, i) ==
    IF i > Len(s) THEN x ELSE reduce(gcd_two(x, s[i]), s, i + 1)

\* gcd as a function of the slice.
gcd(s) == IF Len(s) = 0 THEN 0 ELSE reduce(s[1], s, 2)

NextGcd ==
    \/ GcdEnter
    \/ GcdFold
    \/ GcdLoop
    \/ GcdReturn

\* ------------------------------------------------------------ u64 values
\* A u64 is modelled by its base-256 digits, least significant first and
\* without leading zero digits; the same digits, with no limit on their
\* number, give the natural number a product would have without overflow.
LimbBase == 256
U64Limbs == 8

RECURSIVE Norm(_)
Norm(x) ==
    IF x # <<>> /\ x[Len(x)] = 0 THEN Norm(SubSeq(x, 1, Len(x) - 1)) ELSE x

RECURSIVE BigOf(_)
BigOf(n) == IF n = 0 THEN <<>> ELSE <<n % LimbBase>> \o BigOf(n \div LimbBase)

\* x * m + carry for a natural x and small m, carry.
RECURSIVE MulCarry(_, _, _)
MulCarry(x, m, carry) ==
    IF x = <<>> THEN BigOf(carry)
    ELSE LET t == Head(x) * m + carry
         IN <<t % LimbBase>> \o MulCarry(Tail(x), m, t \div LimbBase)

\* The product x * m as a natural number.
BigMul(x, m) == Norm(MulCarry(x, m, 0))

\* The natural number fits a u64; its value modulo 2^64.
FitsU64(x) == Len(x) <= U64Limbs
WrapU64(x) == IF FitsU64(x) THEN x ELSE Norm(SubSeq(x, 1, U64Limbs))

\* u64 `*`: the product when it fits; on overflow a panic when the build
\* checks overflow, the product modulo 2^64 otherwise.
MulU64(x, m, chk) ==
    LET prod == BigMul(x, m)
    IN IF FitsU64(prod) THEN [tag |-> "Value", val |-> prod]
       ELSE IF chk THEN [tag |-> "Panic", val |-> <<>>]
       ELSE [tag |-> "Value", val |-> WrapU64(prod)]

CIdle == checks = FALSE

\* ------------------------------------------------------------- factorial
FIdle ==
    /\ fn = 0
    /\ fi = 0
    /\ facc = <<>>
    /\ fres = <<>>
    /\ fpc = "idle"

FInit ==
    /\ fn \in 0..MaxFactN
    /\ fi = 0
    /\ facc = <<>>
    /\ fres = <<>>
    /\ fpc = "call"

\* factorial: (1..=n).product() starts from 1 at the head of the range.
FactEnter ==
    /\ fpc = "call"
    /\ facc' = BigOf(1)
    /\ fi' = 1
    /\ fpc' = "iter"
    /\ UNCHANGED <<fn, fres, checks, notFact>>

\* product: the next element of 1..=n is multiplied into the product.
FactMul ==
    /\ fpc = "iter"
    /\ fi <= fn
    /\ LET r == MulU64(facc, fi, checks)
       IN IF r.tag = "Panic"
          THEN /\ fpc' = "panicked"
               /\ UNCHANGED <<facc, fi>>
          ELSE /\ facc' = r.val
               /\ fi' = fi + 1
               /\ fpc' = fpc
    /\ UNCHANGED <<fn, fres, checks, notFact>>

\* product: the range is exhausted and the product is returned.
FactReturn ==
    /\ fpc = "iter"
    /\ fi > fn
    /\ fres' = facc
    /\ fpc' = "done"
    /\ UNCHANGED <<fn, fi, facc, checks, notFact>>

NextFact ==
    \/ FactEnter
    \/ FactMul
    \/ FactReturn

\* ----------------------------------------------------------------- power
PIdle ==
    /\ pbase = 0
    /\ pexp = 0
    /\ pk = 0
    /\ presult = <<>>
    /\ pres = <<>>
    /\ ppc = "idle"

PInit ==
    /\ pbase \in 0..MaxBase
    /\ pexp \in 0..MaxExp
    /\ pk = 0
    /\ presult = <<>>
    /\ pres = <<>>
    /\ ppc = "call"

\* power: let mut result = 1;
PowerEnter ==
    /\ ppc = "call"
    /\ presult' = BigOf(1)
    /\ pk' = 0
    /\ ppc' = "loop"
    /\ UNCHANGED <<pbase, pexp, pres, checks, notPower>>

\* power: one iteration of `for _ in 0..exp { result *= base; }`
PowerMul ==
    /\ ppc = "loop"
    /\ pk < pexp
    /\ LET r == MulU64(presult, pbase, checks)
       IN IF r.tag = "Panic"
          THEN /\ ppc' = "panicked"
               /\ UNCHANGED <<presult, pk>>
          ELSE /\ presult' = r.val
               /\ pk' = pk + 1
               /\ ppc' = ppc
    /\ UNCHANGED <<pbase, pexp, pres, checks, notPower>>

\* power: the loop is over and `result` is returned.
PowerReturn ==
    /\ ppc = "loop"
    /\ pk >= pexp
    /\ pres' = presult
    /\ ppc' = "done"
    /\ UNCHANGED <<pbase, pexp, pk, presult, checks, notPower>>

NextPower ==
    \/ PowerEnter
    \/ PowerMul
    \/ PowerReturn

\* ------------------------------------------------------- solve_quadratic
\* f64 unary `-`, binary `-` and `<`.
FNeg(x) == IF IsNaN(x) THEN NaN ELSE [k |-> x.k, v |-> -x.v]
FSub(x, y) == FAdd(x, FNeg(y))
FLt(x, y) ==
    IF IsNaN(x) \/ IsNaN(y) THEN FALSE
    ELSE IF IsInf(x) THEN x.v < 0 /\ x # y
    ELSE IF IsInf(y) THEN y.v > 0
    ELSE x.v < y.v

\* The integer square root, and the integers that have an exact one.
ISqrt(n) == CHOOSE r \in 0..n : r * r <= n /\ (r + 1) * (r + 1) > n
IsSquare(n) == n >= 0 /\ ISqrt(n) * ISqrt(n) = n

\* f64::sqrt, on the values whose square root is a modelled value.
FSqrt(x) ==
    IF IsNaN(x) THEN NaN
    ELSE IF IsInf(x) THEN (IF x.v > 0 THEN x ELSE NaN)
    ELSE IF x.v < 0 THEN NaN
    ELSE F(ISqrt(x.v))

\* A quotient of two finite values: a fraction n/d in lowest terms with
\* d >= 1 (standing for the f64 nearest to it), an infinity, or NaN.
Abs(n) == IF n < 0 THEN -n ELSE n

RECURSIVE GcdNat(_, _)
GcdNat(m, n) == IF n = 0 THEN m ELSE GcdNat(n, m % n)

Q(n, d) ==
    LET g == GcdNat(Abs(n), Abs(d))
    IN [k |-> "fin", n |-> (Sign(d) * n) \div g, d |-> Abs(d) \div g]
QNaN == [k |-> "nan", n |-> 0, d |-> 0]
QInf(sgn) == [k |-> "inf", n |-> sgn, d |-> 0]

\* f64 `/` of two finite values; the zero divisor here is +0.0.
FDiv(x, y) ==
    IF y.v = 0
    THEN (IF x.v = 0 THEN QNaN ELSE QInf(Sign(x.v)))
    ELSE Q(x.v, y.v)

NoRoots == [tag |-> "None", r1 |-> QNaN, r2 |-> QNaN]
Some(r1, r2) == [tag |-> "Some", r1 |-> r1, r2 |-> r2]

\* solve_quadratic with `discriminant <= 0.0` for `discriminant < 0.0`.
solve_quadratic_le(x, y, z) ==
    LET discriminant == FSub(FMul(y, y), FMul(FMul(F(4), x), z))
    IN IF FLt(discriminant, F(0)) \/ discriminant = F(0)
       THEN NoRoots
       ELSE LET sqrt_discriminant == FSqrt(discriminant)
                root1 == FDiv(FAdd(FNeg(y), sqrt_discriminant), FMul(F(2), x))
                root2 == FDiv(FSub(FNeg(y), sqrt_discriminant), FMul(F(2), x))
            IN Some(root1, root2)

\* solve_quadratic
solve_quadratic(x, y, z) ==
    LET discriminant == FSub(FMul(y, y), FMul(FMul(F(4), x), z))
    IN IF FLt(discriminant, F(0))
       THEN NoRoots
       ELSE LET sqrt_discriminant == FSqrt(discriminant)
                root1 == FDiv(FAdd(FNeg(y), sqrt_discriminant), FMul(F(2), x))
                root2 == FDiv(FSub(FNeg(y), sqrt_discriminant), FMul(F(2), x))
            IN Some(root1, root2)

Coefs == (0 - MaxCoef)..MaxCoef

\* The coefficients the callers pass: small integers whose discriminant is
\* negative or a perfect square, so that every value computed is exact.
QuadInputs ==
    { t \in Coefs \X Coefs \X Coefs :
        LET d == t[2] * t[2] - 4 * t[1] * t[3] IN d < 0 \/ IsSquare(d) }

QIdle ==
    /\ qa = F(0)
    /\ qb = F(0)
    /\ qc = F(0)
    /\ qres = NoRoots
    /\ qpc = "idle"

QInit ==
    /\ \E t \in QuadInputs : qa = F(t[1]) /\ qb = F(t[2]) /\ qc = F(t[3])
    /\ qres = NoRoots
    /\ qpc = "call"

\* let r = solve_quadratic(a, b, c);
QuadCall ==
    /\ qpc = "call"
    /\ qres' = solve_quadratic(qa, qb, qc)
    /\ qpc' = "done"
    /\ UNCHANGED <<qa, qb, qc, notQuad>>

NextQuad == QuadCall

\* ------------------------------------------------------- specifications
\* Callers of the Matrix operations.
Init == MInit /\ GIdle /\ CIdle /\ FIdle /\ PIdle /\ QIdle

Spec == Init /\ [][Next]_vars

\* Calls of gcd.
InitGcd == MInit /\ GInit /\ CIdle /\ FIdle /\ PIdle /\ QIdle

SpecGcd == InitGcd /\ [][NextGcd]_vars

\* Calls of gcd that keep running: the call is sequential code, so a step
\* that can be taken is taken.
SpecGcdFair == SpecGcd /\ WF_vars(NextGcd)

\* Calls of factorial, in a build of either profile.
InitFact == MInit /\ GIdle /\ checks \in BOOLEAN /\ FInit /\ PIdle /\ QIdle

SpecFact == InitFact /\ [][NextFact]_vars

\* Calls of power, in a build of either profile.
InitPower == MInit /\ GIdle /\ checks \in BOOLEAN /\ FIdle /\ PInit /\ QIdle

SpecPower == InitPower /\ [][NextPower]_vars

\* Calls of solve_quadratic.
InitQuad == MInit /\ GIdle /\ CIdle /\ FIdle /\ PIdle /\ QInit

SpecQuad == InitQuad /\ [][NextQuad]_vars

\* ============================================================ properties
\* The shape invariant of a Matrix value.
ShapeOk(m) ==
    /\ Len(m.data) = m.rows
    /\ \A i \in 1..Len(m.data) : Len(m.data[i]) = m.cols

\* No element of m is NaN; every element of m is finite.
NoNaN(m) == \A i \in 1..Len(m.data) : \A j \in 1..Len(m.data[i]) : ~IsNaN(m.data[i][j])
AllFinite(m) ==
    \A i \in 1..Len(m.data) : \A j \in 1..Len(m.data[i]) : IsFinite(m.data[i][j])

\* C1: every Matrix a caller holds, whether bound by new or identity or
\* returned Ok by transpose, add or multiply (on operands that may themselves
\* be results), has `rows` row-sequences of length `cols` each.
C1_ShapeInvariant ==
    /\ \A t \in bound : ShapeOk(Reg(t))
    /\ out.tag = "Ok" => ShapeOk(out.val)

\* C1 witness: a non-square product whose left operand is itself a result.
C1_Witness ==
    /\ call.op = "multiply"
    /\ moves = 1
    /\ out.tag = "Ok"
    /\ out.val.rows = 2
    /\ out.val.cols = 1

\* C2: Matrix::new panics exactly when rows differs from the number of rows
\* of data or some row's length differs from cols; otherwise it returns the
\* Matrix holding exactly the given rows, cols and data.
C2_NewPanicsIffMismatch ==
    call.op = "new" =>
        LET bad == \/ call.rows # Len(call.data)
                   \/ \E i \in 1..Len(call.data) : Len(call.data[i]) # call.cols
        IN /\ (out.tag = "Panic") <=> bad
           /\ ~bad => /\ out.tag = "Ok"
                       /\ out.val.rows = call.rows
                       /\ out.val.cols = call.cols
                       /\ out.val.data = call.data
           /\ bad => bound = {}

\* C2 witness: new panics on ragged data although rows matches its length.
C2_Witness ==
    /\ call.op = "new"
    /\ out.tag = "Panic"
    /\ call.rows = Len(call.data)
    /\ call.rows = 2

\* C3: add returns Ok exactly when both dimensions agree, the result then
\* has those dimensions and holds the element-wise f64 sums; otherwise it
\* returns the dimension-mismatch Err; it never panics.
C3_AddContract ==
    call.op = "add" =>
        LET x == call.self
            y == call.other
            same == x.rows = y.rows /\ x.cols = y.cols
        IN /\ out.tag # "Panic"
           /\ (out.tag = "Ok") <=> same
           /\ ~same => out = Err("Matrices dimensions do not match for addition.")
           /\ same =>
                /\ out.val.rows = x.rows
                /\ out.val.cols = x.cols
                /\ ShapeOk(out.val)
                /\ \A i \in 1..x.rows : \A j \in 1..x.cols :
                      out.val.data[i][j] = FAdd(x.data[i][j], y.data[i][j])
           /\ a = x /\ b = y

\* C3 witness: an Ok sum of two 2 x 2 matrices with different elements.
C3_Witness ==
    /\ call.op = "add"
    /\ out.tag = "Ok"
    /\ out.val.rows = 2
    /\ out.val.cols = 2
    /\ call.self # call.other
    /\ out.val.data[2][1] = F(6)

\* The sum of the products self[i][k] * other[k][j] over k in 1..n, stated
\* without an order of accumulation: NaN when a term is NaN or infinities
\* of both signs occur, an infinity when one occurs, the integer sum else.
RECURSIVE IntSum(_, _)
IntSum(f, S) ==
    IF S = {} THEN 0
    ELSE LET k == CHOOSE x \in S : TRUE IN f[k].v + IntSum(f, S \ {k})

SumOfProducts(x, y, i, j) ==
    LET ks == 1..x.cols
        term == [k \in ks |-> FMul(x.data[i][k], y.data[k][j])]
    IN IF \/ \E k \in ks : IsNaN(term[k])
          \/ (PosInf \in {term[k] : k \in ks} /\ NegInf \in {term[k] : k \in ks})
       THEN NaN
       ELSE IF \E k \in ks : term[k] = PosInf THEN PosInf
       ELSE IF \E k \in ks : term[k] = NegInf THEN NegInf
       ELSE F(IntSum(term, ks))

\* C4: multiply returns Ok exactly when self.cols = other.rows, the result
\* is then self.rows x other.cols with element (i, j) the sum over k of
\* self[i][k] * other[k][j] (all zero when self.cols = 0); otherwise it
\* returns the dimension-mismatch Err; it never panics.
C4_MultiplyContract ==
    call.op = "multiply" =>
        LET x == call.self
            y == call.other
            fit == x.cols = y.rows
        IN /\ out.tag # "Panic"
           /\ (out.tag = "Ok") <=> fit
           /\ ~fit => out = Err("Matrices dimensions do not match for multiplication.")
           /\ fit =>
                /\ out.val.rows = x.rows
                /\ out.val.cols = y.cols
                /\ ShapeOk(out.val)
                /\ \A i \in 1..x.rows : \A j \in 1..y.cols :
                      out.val.data[i][j] = SumOfProducts(x, y, i, j)
                /\ x.cols = 0 => out.val = Matrix(x.rows, y.cols, Filled(x.rows, y.cols, F(0)))

\* C4 witness: the product [[1,2],[3,4]] * [[1,2],[3,4]] = [[7,10],[15,22]].
C4_Witness ==
    /\ call.op = "multiply"
    /\ out.tag = "Ok"
    /\ out.val.data = << <<F(7), F(10)>>, <<F(15), F(22)>> >>

\* C5: transpose always succeeds; the result has the dimensions swapped and
\* element (j, i) equal to element (i, j) of the receiver, which the caller
\* still holds unchanged.
C5_TransposeContract ==
    call.op = "transpose" =>
        LET m == call.self
        IN /\ out.tag = "Ok"
           /\ out.val.rows = m.cols
           /\ out.val.cols = m.rows
           /\ ShapeOk(out.val)
           /\ \A i \in 1..m.rows : \A j \in 1..m.cols :
                 out.val.data[j][i] = m.data[i][j]
           /\ \E t \in bound : Reg(t) = m

\* C5 witness: the transpose of the 2 x 2 matrix [[1,2],[3,4]].
C5_Witness ==
    /\ call.op = "transpose"
    /\ out.tag = "Ok"
    /\ call.self.data = << <<F(1), F(2)>>, <<F(3), F(4)>> >>
    /\ out.val.data = << <<F(1), F(3)>>, <<F(2), F(4)>> >>

\* m.transpose().transpose(), the first transpose being the caller's call.
TransposedBack == Transpose(out.val)

\* C6 as stated: for every matrix m, m.transpose().transpose() == m under
\* the derived equality.
C6_Original ==
    (call.op = "transpose" /\ out.tag = "Ok") =>
        /\ TransposedBack.tag = "Ok"
        /\ MatEq(TransposedBack.val, call.self)

\* C6 amended: m.transpose().transpose() always has the rows, cols and
\* elements of m (zero rows or columns included), and compares == to m
\* exactly when m holds no NaN.
C6_InvolutionUpToNaN ==
    (call.op = "transpose" /\ out.tag = "Ok") =>
        /\ TransposedBack.tag = "Ok"
        /\ TransposedBack.val = call.self
        /\ MatEq(TransposedBack.val, call.self) <=> NoNaN(call.self)

\* C6 witness: a 1 x 2 matrix without NaN has been transposed.
C6_Witness ==
    /\ call.op = "transpose"
    /\ out.tag = "Ok"
    /\ call.self.rows = 1
    /\ call.self.cols = 2
    /\ NoNaN(call.self)
    /\ call.self.data[1][1] = PosInf

\* The caller's multiply was Matrix::identity(n).multiply(m), n = m.rows.
IdentityTimesM ==
    /\ call.op = "multiply"
    /\ call.self = Identity(call.other.rows).val

\* C7 as stated: identity(n).multiply(m) is Ok(r) with r == m.
C7_Original ==
    IdentityTimesM => (out.tag = "Ok" /\ MatEq(out.val, call.other))

\* C7 amended: identity(n).multiply(m) is Ok(r) with the rows and cols of
\* m, and r == m whenever every element of m is finite.
C7_IdentityLawFinite ==
    IdentityTimesM =>
        /\ out.tag = "Ok"
        /\ out.val.rows = call.other.rows
        /\ out.val.cols = call.other.cols
        /\ AllFinite(call.other) => MatEq(out.val, call.other)

\* C7 witness: identity(2) times the finite 2 x 2 matrix [[1,2],[3,4]].
C7_Witness ==
    /\ IdentityTimesM
    /\ call.other.data = << <<F(1), F(2)>>, <<F(3), F(4)>> >>
    /\ out.tag = "Ok"

\* b.add(&a), the caller's call being a.add(&b).
AddSwapped == Add(call.other, call.self)

\* C8 as stated: a.add(b) == b.add(a) for equal dimensions, and both are
\* Err for unequal dimensions.
C8_Original ==
    call.op = "add" =>
        IF call.self.rows = call.other.rows /\ call.self.cols = call.other.cols
        THEN out.tag = "Ok" /\ AddSwapped.tag = "Ok" /\ ResEq(out, AddSwapped)
        ELSE out.tag = "Err" /\ AddSwapped.tag = "Err"

\* C8 amended: for equal dimensions a.add(b) and b.add(a) are both Ok and
\* hold the same elements, and they compare == exactly when no element of
\* the sum is NaN; for unequal dimensions both are Err.
C8_AddCommutesUpToNaN ==
    call.op = "add" =>
        IF call.self.rows = call.other.rows /\ call.self.cols = call.other.cols
        THEN /\ out.tag = "Ok"
             /\ AddSwapped.tag = "Ok"
             /\ out.val = AddSwapped.val
             /\ ResEq(out, AddSwapped) <=> NoNaN(out.val)
        ELSE out.tag = "Err" /\ AddSwapped.tag = "Err"

\* C8 witness: a sum of two different 2 x 2 matrices that holds no NaN.
C8_Witness ==
    /\ call.op = "add"
    /\ out.tag = "Ok"
    /\ call.self.rows = 2
    /\ call.self.cols = 2
    /\ call.self # call.other
    /\ NoNaN(out.val)
    /\ out.val.data[1][1] = PosInf

\* C9 as stated: every Matrix a caller obtains has rows >= 1 and cols >= 1.
C9_Original ==
    /\ \A t \in bound : Reg(t).rows >= 1 /\ Reg(t).cols >= 1
    /\ out.tag = "Ok" => (out.val.rows >= 1 /\ out.val.cols >= 1)

\* The row and column count the call's arguments ask for.
AskedRows ==
    CASE call.op = "new" -> call.rows
      [] call.op = "identity" -> call.size
      [] call.op = "transpose" -> call.self.cols
      [] call.op \in {"add", "multiply"} -> call.self.rows

AskedCols ==
    CASE call.op = "new" -> call.cols
      [] call.op = "identity" -> call.size
      [] call.op = "transpose" -> call.self.rows
      [] call.op = "add" -> call.self.cols
      [] call.op = "multiply" -> call.other.cols

\* C9 amended: the row count and the column count of a Matrix are
\* non-negative integers, zero included: a Matrix obtained from new,
\* identity, transpose, add or multiply has rows >= 1 exactly when the row
\* count asked for (the rows or size argument, or the operand's dimension)
\* is >= 1, likewise cols, and identity(0) and new(0, c, []) are matrices.
C9_DimsNonNegative ==
    /\ \A t \in bound : Reg(t).rows >= 0 /\ Reg(t).cols >= 0
    /\ out.tag = "Ok" =>
         /\ out.val.rows >= 0 /\ out.val.cols >= 0
         /\ (out.val.rows >= 1) <=> (AskedRows >= 1)
         /\ (out.val.cols >= 1) <=> (AskedCols >= 1)
    /\ (call.op = "identity" \/ (call.op = "new" /\ call.data = <<>> /\ call.rows = 0))
         => out.tag = "Ok"

\* C9 witness: Matrix::identity(0) returned the empty matrix.
C9_Witness ==
    /\ call.op = "identity"
    /\ call.size = 0
    /\ out.tag = "Ok"
    /\ out.val.rows = 0
    /\ out.val.cols = 0

\* d divides n (0 divides only 0).
Divides(d, n) == \E q \in 0..n : n = d * q

\* C10: gcd returns 0 for an empty slice, the element for a one-element
\* slice, and in general a common divisor of the elements that every common
\* divisor divides: 0 when all elements are 0, at least 1 otherwise.
C10_GcdIsGreatestCommonDivisor ==
    gpc = "done" =>
        LET n == Len(numbers)
        IN /\ n = 0 => gres = 0
           /\ n = 1 => gres = numbers[1]
           /\ \A i \in 1..n : Divides(gres, numbers[i])
           /\ \A d \in 0..MaxNum :
                 (\A i \in 1..n : Divides(d, numbers[i])) => Divides(d, gres)
           /\ (\A i \in 1..n : numbers[i] = 0) => gres = 0
           /\ (\E i \in 1..n : numbers[i] # 0) => gres >= 1

\* C10 witness: gcd of a three-element slice with a zero in it returned 2.
C10_Witness ==
    /\ gpc = "done"
    /\ numbers = <<4, 0, 6>>
    /\ gres = 2

\* C11: gcd never fails: the remainder in gcd_two is never taken with a
\* zero divisor (no panic), and every call, whatever zeros the slice holds,
\* terminates and returns.
C11_GcdNeverFails == [](gpc # "panicked") /\ <>(gpc = "done")

\* C11 witness: gcd returned 5 for a slice with zeros before and after 5.
C11_Witness ==
    /\ gpc = "done"
    /\ numbers = <<0, 5, 0>>
    /\ gres = 5

\* The slices that hold the elements of s in another order.
Reorderings(s) ==
    { [i \in 1..Len(s) |-> s[f[i]]] :
        f \in { g \in [1..Len(s) -> 1..Len(s)] :
                  \A i, j \in 1..Len(s) : i # j => g[i] # g[j] } }

\* C16: the value a call of gcd returns for a slice is the value of gcd for
\* every reordering of that slice.
C16_GcdOrderIndependent ==
    gpc = "done" => \A p \in Reorderings(numbers) : gcd(p) = gres

\* C16 witness: gcd returned for a slice of three different elements, whose
\* left-to-right fold passes through different accumulators in other orders.
C16_Witness ==
    /\ gpc = "done"
    /\ numbers = <<4, 6, 3>>
    /\ gres = 1
    /\ gcd_two(4, 6) # gcd_two(6, 3)

\* n! as a natural number.
RECURSIVE BigFact(_)
BigFact(n) == IF n = 0 THEN BigOf(1) ELSE BigMul(BigFact(n - 1), n)

\* C12 as stated: factorial(n) never fails; it returns 1 for n in {0, 1},
\* n! for n <= 20, and for n > 20 the product modulo 2^64, which is not n!.
C12_Original ==
    fpc \in {"done", "panicked"} =>
        /\ fpc = "done"
        /\ fn <= 1 => fres = BigOf(1)
        /\ fn <= 20 => fres = BigFact(fn)
        /\ fn > 20 => (fres = WrapU64(BigFact(fn)) /\ fres # BigFact(fn))

\* base^exp as a natural number.
RECURSIVE BigPow(_, _)
BigPow(x, n) == IF n = 0 THEN BigOf(1) ELSE BigMul(BigPow(x, n - 1), x)

\* C13 as stated: power never fails; it multiplies by base exactly exp
\* times, returns 1 when exp is 0 and base^exp whenever that fits a u64.
C13_Original ==
    ppc \in {"done", "panicked"} =>
        /\ ppc = "done"
        /\ pk = pexp
        /\ pexp = 0 => pres = BigOf(1)
        /\ FitsU64(BigPow(pbase, pexp)) => pres = BigPow(pbase, pexp)

\* The root r is the quotient num / den of two integers: the fraction when
\* den is not 0, else NaN for 0 / 0 and the infinity of num's sign.
IsQuotient(r, num, den) ==
    IF den # 0 THEN r.k = "fin" /\ r.d >= 1 /\ r.n * den = num * r.d
    ELSE IF num = 0 THEN r.k = "nan"
    ELSE r.k = "inf" /\ r.n = Sign(num)

C15_Original ==
    (qpc = "done" /\ qa = F(0)) => qres.tag \notin {"None", "Some"}

====
